---- MODULE Spec2Model ----
(***************************************************************************)
(* Model of cfImport.py: the colour resolver (parse_rgb,                   *)
(* color_name_to_hex, get_color_hex) and the rule application engine       *)
(* (apply_cf_rules) together with the button handler that calls it.        *)
(*                                                                         *)
(* A Python str is a sequence of one-character strings, so that strip,     *)
(* replace, split, int() and the f-string formatting are computed and not  *)
(* assumed.  Python None is the one-element sequence <<"None">>, which is  *)
(* no str because "None" is not a single character.                        *)
(***************************************************************************)
EXTENDS Integers, Sequences, FiniteSets, TLC

VARIABLES
    pc,                \* position of the run inside apply_cf_rules
    rules_file,        \* uploaded rules workbook: has the 'CF Rules' sheet?, its data rows
    target_file,       \* uploaded target workbook, or None
    row_number_input,  \* text input "Row Number for @ROW@"
    first_row,         \* number input "First Row" (NoRow when left empty)
    last_row,          \* number input "Last Row" (NoRow when left empty)
    mode,              \* radio "Create New File" / "Update Existing File"
    row_number,        \* local row_number
    rules_read,        \* has openpyxl.load_workbook(rules_file) been called in this run
    rules,             \* local rules
    wb_new,            \* local wb_new: sequence of worksheets [title, cf], or None
    rules_by_sheet,    \* local rules_by_sheet: insertion-ordered <<[name, rules]>>
    start_row,         \* local start_row
    end_row,           \* local end_row
    sheet_count,       \* local sheet_count: groups finished so far
    rule_idx,          \* records of the current group processed so far
    rules_applied,     \* local rules_applied
    rules_skipped,     \* local rules_skipped
    warnings,          \* number of st.warning calls of this run
    attached,          \* <<sheet title, directive>> of every conditional_formatting.add of this run
    error,             \* the st.error shown by this run, "" when none
    result,            \* "running", "None" (return None), "output" (the tuple), "raised"
    output,            \* the saved workbook of the tuple returned, or None
    rerun,             \* has the generate button been pressed again on the file it produced
    color_name,        \* argument of get_color_hex (colour resolver specification)
    rgb_string,        \* argument of get_color_hex (colour resolver specification)
    hex_color          \* value returned by get_color_hex, Pending before the call

vars == <<pc, rules_file, target_file, row_number_input, first_row, last_row, mode,
          row_number, rules_read, rules, wb_new, rules_by_sheet, start_row, end_row,
          sheet_count, rule_idx, rules_applied, rules_skipped, warnings, attached,
          error, result, output, rerun, color_name, rgb_string, hex_color>>

----------------------------------------------------------------------------
(* Python values *)

None == <<"None">>

\* truth value of a str-or-None: None and '' are falsy
Truthy(x) == x # None /\ x # <<>>

IsSpace(c) == c = " "

RECURSIVE LStrip(_)
LStrip(s) == IF s # <<>> /\ IsSpace(Head(s)) THEN LStrip(Tail(s)) ELSE s

RECURSIVE RStrip(_)
RStrip(s) ==
    IF s # <<>> /\ IsSpace(s[Len(s)]) THEN RStrip(SubSeq(s, 1, Len(s) - 1)) ELSE s

\* str.strip()
strip(s) == RStrip(LStrip(s))

StartsWith(s, p) == Len(s) >= Len(p) /\ SubSeq(s, 1, Len(p)) = p

\* str.replace(old, new) for a non-empty old: leftmost, non-overlapping
RECURSIVE replace(_, _, _)
replace(s, old, new) ==
    IF s = <<>> THEN <<>>
    ELSE IF StartsWith(s, old)
         THEN new \o replace(SubSeq(s, Len(old) + 1, Len(s)), old, new)
         ELSE <<Head(s)>> \o replace(Tail(s), old, new)

\* str.split(sep) for a one-character sep
RECURSIVE split(_, _)
split(s, sep) ==
    IF \E i \in 1..Len(s) : s[i] = sep
    THEN LET i == CHOOSE k \in 1..Len(s) :
                      s[k] = sep /\ \A j \in 1..(k - 1) : s[j] # sep
         IN  <<SubSeq(s, 1, i - 1)>> \o split(SubSeq(s, i + 1, Len(s)), sep)
    ELSE <<s>>

Digits == <<"0", "1", "2", "3", "4", "5", "6", "7", "8", "9">>

IsDigit(c) == \E d \in 1..Len(Digits) : Digits[d] = c

DigitValue(c) == (CHOOSE d \in 1..Len(Digits) : Digits[d] = c) - 1

\* the digits of int() after the sign
UnsignedPart(t) == IF t # <<>> /\ Head(t) \in {"+", "-"} THEN Tail(t) ELSE t

\* int(p) does not raise ValueError: optional blanks, optional sign, decimal digits
IntParses(p) ==
    LET body == UnsignedPart(strip(p))
    IN  body # <<>> /\ \A i \in 1..Len(body) : IsDigit(body[i])

RECURSIVE UnsignedValue(_)
UnsignedValue(ds) ==
    IF ds = <<>> THEN 0
    ELSE 10 * UnsignedValue(SubSeq(ds, 1, Len(ds) - 1)) + DigitValue(ds[Len(ds)])

\* int(p) when it parses
IntValue(p) ==
    LET t == strip(p)
    IN  IF t # <<>> /\ Head(t) = "-" THEN 0 - UnsignedValue(UnsignedPart(t))
        ELSE UnsignedValue(UnsignedPart(t))

\* str(n) of a non-negative int
RECURSIVE str(_)
str(n) == IF n < 10 THEN <<Digits[n + 1]>> ELSE str(n \div 10) \o <<Digits[(n % 10) + 1]>>

HexDigits ==
    <<"0", "1", "2", "3", "4", "5", "6", "7", "8", "9", "A", "B", "C", "D", "E", "F">>

\* format(n, 'X') of a non-negative int
RECURSIVE UpperHex(_)
UpperHex(n) ==
    IF n < 16 THEN <<HexDigits[n + 1]>>
    ELSE UpperHex(n \div 16) \o <<HexDigits[(n % 16) + 1]>>

\* f"{n:02X}": zero-padded to a minimum width of 2, the sign counting in the width
Format02X(n) ==
    IF n < 0 THEN <<"-">> \o UpperHex(0 - n)
    ELSE IF n < 16 THEN <<"0">> \o UpperHex(n)
    ELSE UpperHex(n)

----------------------------------------------------------------------------
(* Colour resolver *)

parse_rgb(rgb) ==
    IF ~Truthy(rgb) \/ strip(rgb) = <<>> THEN None
    ELSE LET cleaned == strip(replace(rgb, <<"'">>, <<>>))
             parts   == split(cleaned, ",")
         IN  IF Len(parts) = 3
             THEN IF \A i \in 1..3 : IntParses(parts[i])
                  THEN Format02X(IntValue(parts[1])) \o Format02X(IntValue(parts[2]))
                           \o Format02X(IntValue(parts[3]))
                  ELSE None
             ELSE None

color_map ==
    { <<<<"A", "q", "u", "a">>, <<"0", "0", "F", "F", "F", "F">>>>,
      <<<<"B", "l", "a", "c", "k">>, <<"0", "0", "0", "0", "0", "0">>>>,
      <<<<"B", "l", "u", "e">>, <<"0", "0", "0", "0", "F", "F">>>>,
      <<<<"B", "l", "u", "e", "G", "r", "a", "y">>, <<"6", "6", "6", "6", "9", "9">>>>,
      <<<<"B", "r", "i", "g", "h", "t", "G", "r", "e", "e", "n">>, <<"0", "0", "F", "F", "0", "0">>>>,
      <<<<"B", "r", "o", "w", "n">>, <<"9", "9", "3", "3", "0", "0">>>>,
      <<<<"D", "a", "r", "k", "B", "l", "u", "e">>, <<"0", "0", "0", "0", "8", "0">>>>,
      <<<<"D", "a", "r", "k", "G", "r", "e", "e", "n">>, <<"0", "0", "3", "3", "0", "0">>>>,
      <<<<"D", "a", "r", "k", "R", "e", "d">>, <<"8", "0", "0", "0", "0", "0">>>>,
      <<<<"D", "a", "r", "k", "Y", "e", "l", "l", "o", "w">>, <<"8", "0", "8", "0", "0", "0">>>>,
      <<<<"D", "a", "r", "k", "T", "e", "a", "l">>, <<"0", "0", "3", "3", "6", "6">>>>,
      <<<<"G", "o", "l", "d">>, <<"F", "F", "C", "0", "0", "0">>>>,
      <<<<"G", "r", "e", "e", "n">>, <<"0", "0", "8", "0", "0", "0">>>>,
      <<<<"G", "r", "a", "y", "2", "5">>, <<"C", "0", "C", "0", "C", "0">>>>,
      <<<<"G", "r", "a", "y", "4", "0">>, <<"9", "6", "9", "6", "9", "6">>>>,
      <<<<"G", "r", "a", "y", "5", "0">>, <<"8", "0", "8", "0", "8", "0">>>>,
      <<<<"G", "r", "a", "y", "8", "0">>, <<"3", "3", "3", "3", "3", "3">>>>,
      <<<<"G", "r", "e", "y">>, <<"8", "0", "8", "0", "8", "0">>>>,
      <<<<"G", "r", "a", "y">>, <<"8", "0", "8", "0", "8", "0">>>>,
      <<<<"I", "n", "d", "i", "g", "o">>, <<"3", "3", "3", "3", "9", "9">>>>,
      <<<<"L", "a", "v", "e", "n", "d", "e", "r">>, <<"C", "C", "9", "9", "F", "F">>>>,
      <<<<"L", "i", "g", "h", "t", "B", "l", "u", "e">>, <<"3", "3", "6", "6", "F", "F">>>>,
      <<<<"L", "i", "g", "h", "t", "G", "r", "a", "y">>, <<"C", "0", "C", "0", "C", "0">>>>,
      <<<<"L", "i", "g", "h", "t", "G", "r", "e", "e", "n">>, <<"C", "C", "F", "F", "C", "C">>>>,
      <<<<"L", "i", "g", "h", "t", "O", "r", "a", "n", "g", "e">>, <<"F", "F", "9", "9", "0", "0">>>>,
      <<<<"L", "i", "g", "h", "t", "T", "u", "r", "q", "u", "o", "i", "s", "e">>, <<"C", "C", "F", "F", "F", "F">>>>,
      <<<<"L", "i", "g", "h", "t", "Y", "e", "l", "l", "o", "w">>, <<"F", "F", "F", "F", "9", "9">>>>,
      <<<<"L", "i", "m", "e">>, <<"9", "9", "C", "C", "0", "0">>>>,
      <<<<"O", "l", "i", "v", "e", "G", "r", "e", "e", "n">>, <<"3", "3", "3", "3", "0", "0">>>>,
      <<<<"O", "r", "a", "n", "g", "e">>, <<"F", "F", "6", "6", "0", "0">>>>,
      <<<<"P", "a", "l", "e", "B", "l", "u", "e">>, <<"9", "9", "C", "C", "F", "F">>>>,
      <<<<"P", "i", "n", "k">>, <<"F", "F", "0", "0", "F", "F">>>>,
      <<<<"P", "l", "u", "m">>, <<"9", "9", "3", "3", "6", "6">>>>,
      <<<<"R", "e", "d">>, <<"F", "F", "0", "0", "0", "0">>>>,
      <<<<"R", "o", "s", "e">>, <<"F", "F", "9", "9", "C", "C">>>>,
      <<<<"S", "e", "a", "G", "r", "e", "e", "n">>, <<"3", "3", "9", "9", "6", "6">>>>,
      <<<<"S", "k", "y", "B", "l", "u", "e">>, <<"0", "0", "C", "C", "F", "F">>>>,
      <<<<"T", "a", "n">>, <<"F", "F", "C", "C", "9", "9">>>>,
      <<<<"T", "e", "a", "l">>, <<"0", "0", "8", "0", "8", "0">>>>,
      <<<<"T", "u", "r", "q", "u", "o", "i", "s", "e">>, <<"0", "0", "F", "F", "F", "F">>>>,
      <<<<"V", "i", "o", "l", "e", "t">>, <<"8", "0", "0", "0", "8", "0">>>>,
      <<<<"W", "h", "i", "t", "e">>, <<"F", "F", "F", "F", "F", "F">>>>,
      <<<<"Y", "e", "l", "l", "o", "w">>, <<"F", "F", "F", "F", "0", "0">>>> }
\* color_map.get(color_name)
color_name_to_hex(name) ==
    IF \E e \in color_map : e[1] = name
    THEN (CHOOSE e \in color_map : e[1] = name)[2]
    ELSE None

Sentinels == {<<"R", "G", "B">>, <<"N", "o", "C", "o", "l", "o", "r">>, <<>>}

\* get_color_hex with the name path tried only when no RGB text is given
get_color_hex_short_circuit(name, rgb) ==
    IF Truthy(rgb) /\ strip(rgb) # <<>>
    THEN parse_rgb(rgb)
    ELSE IF Truthy(name) /\ strip(name) # <<>> /\ name \notin Sentinels
              /\ Truthy(color_name_to_hex(name))
         THEN color_name_to_hex(name)
         ELSE None

get_color_hex(name, rgb) ==
    IF Truthy(rgb) /\ strip(rgb) # <<>> /\ Truthy(parse_rgb(rgb))
    THEN parse_rgb(rgb)
    ELSE IF Truthy(name) /\ strip(name) # <<>> /\ name \notin Sentinels
              /\ Truthy(color_name_to_hex(name))
         THEN color_name_to_hex(name)
         ELSE None

----------------------------------------------------------------------------
(* Rule records *)

DefaultSheet == <<"S", "h", "e", "e", "t", "1">>

\* indexing the row tuple raises IndexError: row[1], row[2], row[3] are read unguarded
RowRaises(row) == Truthy(row[1]) /\ Len(row) < 4

\* the dict built for one row whose Start Column exists (row[k] is Python's row[k-1])
RuleOf(row) ==
    [ start_col     |-> row[1],
      end_col       |-> row[2],
      formula       |-> IF Truthy(row[3]) THEN row[3] ELSE <<>>,
      stop_if_true  |-> IF Truthy(row[4]) THEN row[4] = <<"Y">> ELSE FALSE,
      bg_color      |-> IF Len(row) > 4 THEN row[5] ELSE <<>>,
      bg_rgb        |-> IF Len(row) > 5 THEN row[6] ELSE <<>>,
      font_color    |-> IF Len(row) > 6 THEN row[7] ELSE <<>>,
      font_rgb      |-> IF Len(row) > 7 THEN row[8] ELSE <<>>,
      number_format |-> IF Len(row) > 8 THEN row[9] ELSE <<>>,
      worksheet     |-> IF Len(row) > 9 THEN row[10] ELSE DefaultSheet ]

\* the list rules after the loop over iter_rows(min_row=2), when no row raises
RECURSIVE ReadRows(_)
ReadRows(rows) ==
    IF rows = <<>> THEN <<>>
    ELSE IF Truthy(Head(rows)[1]) THEN <<RuleOf(Head(rows))>> \o ReadRows(Tail(rows))
         ELSE ReadRows(Tail(rows))

SheetNameOf(rule) == IF Truthy(rule.worksheet) THEN rule.worksheet ELSE DefaultSheet

GroupIndex(groups, name) == CHOOSE i \in 1..Len(groups) : groups[i].name = name

\* one iteration of the grouping loop when a new sheet name is put in front
AddToGroupsNewFirst(groups, rule) ==
    LET name == SheetNameOf(rule)
    IN  IF \E i \in 1..Len(groups) : groups[i].name = name
        THEN [groups EXCEPT ![GroupIndex(groups, name)].rules = Append(@, rule)]
        ELSE <<[name |-> name, rules |-> <<rule>>]>> \o groups

\* one iteration of the grouping loop: dict insertion order, list append
AddToGroups(groups, rule) ==
    LET name == SheetNameOf(rule)
    IN  IF \E i \in 1..Len(groups) : groups[i].name = name
        THEN [groups EXCEPT ![GroupIndex(groups, name)].rules = Append(@, rule)]
        ELSE Append(groups, [name |-> name, rules |-> <<rule>>])

RECURSIVE GroupRules(_, _)
GroupRules(rs, groups) ==
    IF rs = <<>> THEN groups ELSE GroupRules(Tail(rs), AddToGroups(groups, Head(rs)))

----------------------------------------------------------------------------
(* Parameters of the run *)

NoRow == 0

FallbackStartRow == 1

FallbackEndRow == 1000

\* the row specification is never reported missing
RowSpecMissingIgnored(input, first) == FALSE

\* neither a non-blank row number text nor a first row
RowSpecMissing(input, first) == ~(Truthy(input) /\ strip(input) # <<>>) /\ first = NoRow

\* the value substituted for @ROW@
RowNumberOf(input, first) ==
    IF Truthy(input) /\ strip(input) # <<>> THEN strip(input) ELSE str(first)

\* <<start_row, end_row>>
RowRange(first, last) ==
    IF first # NoRow /\ last # NoRow THEN <<first, last>>
    ELSE <<FallbackStartRow, FallbackEndRow>>

\* update mode without a target workbook
TargetMissing(m, target) == m = "Update Existing File" /\ ~target.uploaded

----------------------------------------------------------------------------
(* Worksheets and directives *)

HasSheet(wb, title) == \E i \in 1..Len(wb) : wb[i].title = title

SheetIndex(wb, title) == CHOOSE i \in 1..Len(wb) : wb[i].title = title

\* the worksheet is fetched or created and its existing rules are kept
GetOrCreateSheetKeepRules(wb, title) ==
    IF HasSheet(wb, title) THEN wb
    ELSE Append(wb, [title |-> title, cf |-> <<>>])

\* wb_new[sheet_name] with its conditional formatting cleared, or create_sheet
GetOrCreateSheet(wb, title) ==
    IF HasSheet(wb, title) THEN [wb EXCEPT ![SheetIndex(wb, title)].cf = <<>>]
    ELSE Append(wb, [title |-> title, cf |-> <<>>])

IsHexChar(c) ==
    IsDigit(c) \/ c \in {"A", "B", "C", "D", "E", "F", "a", "b", "c", "d", "e", "f"}

\* Color(rgb=h) accepts h: six or eight hexadecimal digits, anything else raises
ColorAccepts(h) == Len(h) \in {6, 8} /\ \A i \in 1..Len(h) : IsHexChar(h[i])

RowToken == <<"@", "R", "O", "W", "@">>

\* the substituted formula
FormulaOf(rule, rowNumber) ==
    IF Truthy(rule.formula) THEN replace(rule.formula, RowToken, rowNumber) ELSE <<>>

\* the range string built from the start row alone
RangeStringStartRowTwice(rule, startRow, endRow) ==
    rule.start_col \o str(startRow) \o <<":">> \o rule.end_col \o str(startRow)

\* f"{rule['start_col']}{start_row}:{rule['end_col']}{end_row}"
RangeString(rule, startRow, endRow) ==
    rule.start_col \o str(startRow) \o <<":">> \o rule.end_col \o str(endRow)

\* the test "not bg_hex and not font_hex" left out
NoColorNever(bg, font) == FALSE

\* not bg_hex and not font_hex
NoColor(bg, font) == ~Truthy(bg) /\ ~Truthy(font)

\* what the body of the try block does for one record:
\* "skipped" (continue), "failed" (an exception reaches the except clause), "applied"
RuleOutcome(rule, rowNumber, startRow, endRow) ==
    LET formula == FormulaOf(rule, rowNumber)
        bg_hex   == get_color_hex(rule.bg_color, rule.bg_rgb)
        font_hex == get_color_hex(rule.font_color, rule.font_rgb)
    IN  IF ~Truthy(formula) THEN [kind |-> "skipped"]
        ELSE IF NoColor(bg_hex, font_hex) THEN [kind |-> "skipped"]
        ELSE IF (Truthy(bg_hex) /\ ~ColorAccepts(bg_hex))
                 \/ (Truthy(font_hex) /\ ~ColorAccepts(font_hex))
             THEN [kind |-> "failed"]
        ELSE [ kind |-> "applied",
               directive |->
                   [ range      |-> RangeString(rule, startRow, endRow),
                     formula    |-> formula,
                     stopIfTrue |-> rule.stop_if_true,
                     fill       |-> IF Truthy(bg_hex) THEN bg_hex ELSE None,
                     font       |-> IF Truthy(font_hex) THEN font_hex ELSE None ] ]

\* rules_skipped after a record when the except clause does not count
SkippedAfterUncounted(kind, skipped) == IF kind = "skipped" THEN skipped + 1 ELSE skipped

\* rules_skipped after a record
SkippedAfter(kind, skipped) == IF kind = "applied" THEN skipped ELSE skipped + 1

\* a failing record ends the loop over the worksheet's records
NextRuleIdxBreak(kind, idx, n) == IF kind = "failed" THEN n ELSE idx + 1

\* the loop goes on with the next record whatever happened to this one
NextRuleIdx(kind, idx, n) == idx + 1

----------------------------------------------------------------------------
(* Inputs *)

MaxRows == 2

MaxParts == 3

\* cells of the rule table are str or None
RowExample   == <<<<"A">>, <<"C">>, <<"=", "A", "@", "R", "O", "W", "@", ">", "0">>, <<"Y">>, <<"R", "e", "d">>, None, None, None, None, <<"S", "h", "e", "e", "t", "1">>>>
RowRgb       == <<<<"B">>, <<"B">>, <<"=", "B", "1">>, None, None, <<"0", ",", "1", "2", "8", ",", "2", "5", "5">>, <<"B", "l", "u", "e">>, None, None, None>>
RowMalformed == <<<<"D">>, <<"E">>, <<"=", "@", "R", "O", "W", "@", "+", "@", "R", "O", "W", "@">>, <<"y">>, <<"R", "e", "d">>, <<"1", ",", "2">>, None, None, None, <<"D", "a", "t", "a">>>>
RowTooLarge  == <<<<"F">>, <<"F">>, <<"=", "F", "@", "R", "O", "W", "@">>, <<"Y">>, <<"R", "G", "B">>, <<"2", "5", "6", ",", "0", ",", "0">>, None, None, None, <<"D", "a", "t", "a">>>>
RowNoColor   == <<<<"G">>, <<"G">>, <<"=", "G", "1">>, None, <<"N", "o", "C", "o", "l", "o", "r">>, None, None, None, None, <<"D", "a", "t", "a">>>>
RowNoFormula == <<<<"H">>, <<"H">>, None, None, <<"R", "e", "d">>, None, None, None, None, <<"E", "x", "t", "r", "a">>>>
RowNoStart   == <<None, <<"C">>, <<"=", "A", "1">>, <<"Y">>, <<"R", "e", "d">>, None, None, None, None, <<"S", "h", "e", "e", "t", "1">>>>
RowFive      == <<<<"J">>, <<"K">>, <<"=", "J", "@", "R", "O", "W", "@">>, <<"Y">>, <<"G", "r", "e", "e", "n">>>>
RowTwo       == <<<<"L">>, <<"M">>>>

RowPool ==
    { RowExample, RowRgb, RowMalformed, RowTooLarge, RowNoColor, RowNoFormula,
      RowNoStart, RowFive, RowTwo }

Tables == UNION { [1..n -> RowPool] : n \in 0..MaxRows }

RulesFiles ==
    { [has_sheet |-> FALSE, rows |-> <<>>] }
        \cup { [has_sheet |-> TRUE, rows |-> t] : t \in Tables }

OldDirective ==
    [ range |-> <<"A", "1", ":", "B", "9">>, formula |-> <<"=", "A", "1", "=", "1">>, stopIfTrue |-> FALSE,
      fill |-> <<"F", "F", "F", "F", "0", "0">>, font |-> None ]

NoFile == [uploaded |-> FALSE, sheets |-> <<>>]

TargetFiles ==
    { [ uploaded |-> TRUE,
        sheets   |-> << [title |-> <<"S", "h", "e", "e", "t", "1">>, cf |-> <<OldDirective>>],
                        [title |-> <<"O", "t", "h", "e", "r">>, cf |-> <<OldDirective>>] >> ] }

Modes == {"Create New File", "Update Existing File"}

RowNumberInputs == {<<>>, <<" ">>, <<" ", "7", " ">>}

RowInputs == {<<NoRow, NoRow>>, <<13, NoRow>>, <<NoRow, 15>>, <<13, 15>>}

Pending == <<"Pending">>

ColorNamePool ==
    {None, <<>>, <<" ">>, <<"R", "e", "d">>, <<" ", "R", "e", "d">>, <<"R", "G", "B">>, <<"N", "o", "C", "o", "l", "o", "r">>, <<"M", "a", "u", "v", "e">>}

PartPool == {<<"2", "5", "5">>, <<"0">>, <<" ", "1", "2", "8", " ">>, <<"2", "5", "6">>, <<"-", "1">>, <<"x">>, <<>>, <<"'", "7", "'">>}

RECURSIVE RgbTextsOf(_)
RgbTextsOf(n) ==
    IF n = 1 THEN PartPool
    ELSE { t \o <<",">> \o p : t \in RgbTextsOf(n - 1), p \in PartPool }

RgbTexts == {None, <<" ">>} \cup UNION { RgbTextsOf(n) : n \in 1..MaxParts }

----------------------------------------------------------------------------
(* apply_cf_rules *)

Locals ==
    /\ row_number = None
    /\ rules_read = FALSE
    /\ rules = <<>>
    /\ wb_new = <<>>
    /\ rules_by_sheet = <<>>
    /\ start_row = NoRow
    /\ end_row = NoRow
    /\ sheet_count = 0
    /\ rule_idx = 0
    /\ rules_applied = 0
    /\ rules_skipped = 0
    /\ warnings = 0
    /\ attached = <<>>
    /\ error = ""
    /\ result = "running"
    /\ output = NoFile

Init ==
    /\ pc = "row"
    /\ rules_file \in RulesFiles
    /\ row_number_input \in RowNumberInputs
    /\ \E r \in RowInputs : first_row = r[1] /\ last_row = r[2]
    /\ \E m \in Modes, t \in TargetFiles \cup {NoFile} :
           /\ mode = m
           /\ target_file = t
           /\ (m = "Create New File" => t = NoFile)
    /\ Locals
    /\ rerun = FALSE
    /\ color_name = None
    /\ rgb_string = None
    /\ hex_color = Pending

inputs == <<rules_file, target_file, row_number_input, first_row, last_row, mode, rerun>>

resolver == <<color_name, rgb_string, hex_color>>

Fatal(message) ==
    /\ error' = message
    /\ result' = "None"
    /\ pc' = "done"

DetermineRow ==
    /\ pc = "row"
    /\ IF RowSpecMissing(row_number_input, first_row)
       THEN Fatal("Please enter either a Row Number or First Row!")
            /\ UNCHANGED row_number
       ELSE /\ row_number' = RowNumberOf(row_number_input, first_row)
            /\ pc' = "load"
            /\ UNCHANGED <<error, result>>
    /\ UNCHANGED <<inputs, resolver, rules_read, rules, wb_new, rules_by_sheet,
                   start_row, end_row, sheet_count, rule_idx, rules_applied,
                   rules_skipped, warnings, attached, output>>

LoadRules ==
    /\ pc = "load"
    /\ rules_read' = TRUE
    /\ IF ~rules_file.has_sheet
       THEN Fatal("'CF Rules' sheet not found in the uploaded file!")
       ELSE pc' = "read" /\ UNCHANGED <<error, result>>
    /\ UNCHANGED <<inputs, resolver, row_number, rules, wb_new, rules_by_sheet,
                   start_row, end_row, sheet_count, rule_idx, rules_applied,
                   rules_skipped, warnings, attached, output>>

ReadRules ==
    /\ pc = "read"
    /\ IF \E i \in 1..Len(rules_file.rows) : RowRaises(rules_file.rows[i])
       THEN /\ result' = "raised"
            /\ pc' = "done"
            /\ UNCHANGED <<rules, error>>
       ELSE /\ rules' = ReadRows(rules_file.rows)
            /\ IF rules' = <<>>
               THEN Fatal("No rules found in the CF Rules sheet!")
               ELSE pc' = "open" /\ UNCHANGED <<error, result>>
    /\ UNCHANGED <<inputs, resolver, row_number, rules_read, wb_new, rules_by_sheet,
                   start_row, end_row, sheet_count, rule_idx, rules_applied,
                   rules_skipped, warnings, attached, output>>

OpenWorkbook ==
    /\ pc = "open"
    /\ IF mode = "Update Existing File"
       THEN IF TargetMissing(mode, target_file)
            THEN Fatal("Please upload a target file to update!") /\ UNCHANGED wb_new
            ELSE /\ wb_new' = target_file.sheets
                 /\ pc' = "group"
                 /\ UNCHANGED <<error, result>>
       ELSE /\ wb_new' = <<>>
            /\ pc' = "group"
            /\ UNCHANGED <<error, result>>
    /\ UNCHANGED <<inputs, resolver, row_number, rules_read, rules, rules_by_sheet,
                   start_row, end_row, sheet_count, rule_idx, rules_applied,
                   rules_skipped, warnings, attached, output>>

GroupAndRange ==
    /\ pc = "group"
    /\ rules_by_sheet' = GroupRules(rules, <<>>)
    /\ start_row' = RowRange(first_row, last_row)[1]
    /\ end_row' = RowRange(first_row, last_row)[2]
    /\ sheet_count' = 0
    /\ rules_applied' = 0
    /\ rules_skipped' = 0
    /\ pc' = "sheet"
    /\ UNCHANGED <<inputs, resolver, row_number, rules_read, rules, wb_new, rule_idx,
                   warnings, attached, error, result, output>>

CurrentGroup == rules_by_sheet[sheet_count + 1]

BeginSheet ==
    /\ pc = "sheet"
    /\ sheet_count < Len(rules_by_sheet)
    /\ wb_new' = GetOrCreateSheet(wb_new, CurrentGroup.name)
    /\ rule_idx' = 0
    /\ pc' = "rule"
    /\ UNCHANGED <<inputs, resolver, row_number, rules_read, rules, rules_by_sheet,
                   start_row, end_row, sheet_count, rules_applied, rules_skipped,
                   warnings, attached, error, result, output>>

CurrentRule == CurrentGroup.rules[rule_idx + 1]

ApplyRule ==
    /\ pc = "rule"
    /\ rule_idx < Len(CurrentGroup.rules)
    /\ LET outcome == RuleOutcome(CurrentRule, row_number, start_row, end_row)
           ws      == SheetIndex(wb_new, CurrentGroup.name)
       IN  /\ IF outcome.kind = "applied"
              THEN /\ wb_new' = [wb_new EXCEPT ![ws].cf = Append(@, outcome.directive)]
                   /\ attached' = Append(attached, [sheet     |-> CurrentGroup.name,
                                                    directive |-> outcome.directive])
                   /\ rules_applied' = rules_applied + 1
              ELSE UNCHANGED <<wb_new, attached, rules_applied>>
           /\ rules_skipped' = SkippedAfter(outcome.kind, rules_skipped)
           /\ warnings' = IF outcome.kind = "failed" THEN warnings + 1 ELSE warnings
           /\ rule_idx' = NextRuleIdx(outcome.kind, rule_idx, Len(CurrentGroup.rules))
    /\ UNCHANGED <<inputs, resolver, pc, row_number, rules_read, rules, rules_by_sheet,
                   start_row, end_row, sheet_count, error, result, output>>

EndSheet ==
    /\ pc = "rule"
    /\ rule_idx >= Len(CurrentGroup.rules)
    /\ sheet_count' = sheet_count + 1
    /\ pc' = "sheet"
    /\ UNCHANGED <<inputs, resolver, row_number, rules_read, rules, wb_new,
                   rules_by_sheet, start_row, end_row, rule_idx, rules_applied,
                   rules_skipped, warnings, attached, error, result, output>>

Save ==
    /\ pc = "sheet"
    /\ sheet_count >= Len(rules_by_sheet)
    /\ output' = [uploaded |-> TRUE, sheets |-> wb_new]
    /\ result' = "output"
    /\ pc' = "done"
    /\ UNCHANGED <<inputs, resolver, row_number, rules_read, rules, wb_new,
                   rules_by_sheet, start_row, end_row, sheet_count, rule_idx,
                   rules_applied, rules_skipped, warnings, attached, error>>

\* the downloaded file is uploaded as the target, the mode is set to update and the
\* button is pressed again with the same rules file and the same row inputs
GenerateAgain ==
    /\ pc = "done"
    /\ result = "output"
    /\ target_file' = output
    /\ mode' = "Update Existing File"
    /\ rerun' = TRUE
    /\ pc' = "row"
    /\ row_number' = None
    /\ rules_read' = FALSE
    /\ rules' = <<>>
    /\ wb_new' = <<>>
    /\ rules_by_sheet' = <<>>
    /\ start_row' = NoRow
    /\ end_row' = NoRow
    /\ sheet_count' = 0
    /\ rule_idx' = 0
    /\ rules_applied' = 0
    /\ rules_skipped' = 0
    /\ warnings' = 0
    /\ attached' = <<>>
    /\ error' = ""
    /\ result' = "running"
    /\ output' = NoFile
    /\ UNCHANGED <<rules_file, row_number_input, first_row, last_row, resolver>>

Next ==
    \/ DetermineRow
    \/ LoadRules
    \/ ReadRules
    \/ OpenWorkbook
    \/ GroupAndRange
    \/ BeginSheet
    \/ ApplyRule
    \/ EndSheet
    \/ Save
    \/ GenerateAgain

Spec == Init /\ [][Next]_vars

----------------------------------------------------------------------------
(* The colour resolver on its own: get_color_hex applied to one pair of arguments *)

InitColor ==
    /\ pc = "resolve"
    /\ color_name \in ColorNamePool
    /\ rgb_string \in RgbTexts
    /\ hex_color = Pending
    /\ rules_file = [has_sheet |-> FALSE, rows |-> <<>>]
    /\ target_file = NoFile
    /\ row_number_input = <<>>
    /\ first_row = NoRow
    /\ last_row = NoRow
    /\ mode = "Create New File"
    /\ rerun = FALSE
    /\ Locals

ResolveColor ==
    /\ pc = "resolve"
    /\ hex_color' = get_color_hex(color_name, rgb_string)
    /\ pc' = "resolved"
    /\ UNCHANGED <<inputs, color_name, rgb_string, row_number, rules_read, rules, wb_new,
                   rules_by_sheet, start_row, end_row, sheet_count, rule_idx,
                   rules_applied, rules_skipped, warnings, attached, error, result,
                   output>>

NextColor == ResolveColor

SpecColor == InitColor /\ [][NextColor]_vars

----------------------------------------------------------------------------
(* Properties *)

SheetCf(sheets, title) ==
    IF HasSheet(sheets, title) THEN sheets[SheetIndex(sheets, title)].cf ELSE <<>>

\* the directives this run attached to the worksheet, in the order of attachment
AttachedTo(title) ==
    LET OnSheet(e) == e.sheet = title
        sel == SelectSeq(attached, OnSheet)
    IN  [i \in 1..Len(sel) |-> sel[i].directive]

Titles(sheets) == [i \in 1..Len(sheets) |-> sheets[i].title]

BgHex(rule) == get_color_hex(rule.bg_color, rule.bg_rgb)

FontHex(rule) == get_color_hex(rule.font_color, rule.font_rgb)

BothUnset(rule) == BgHex(rule) = None /\ FontHex(rule) = None

\* a resolved colour of the record is rejected by the style constructor
Rejected(rule) ==
    \/ BgHex(rule) # None /\ ~ColorAccepts(BgHex(rule))
    \/ FontHex(rule) # None /\ ~ColorAccepts(FontHex(rule))

InLoop == pc = "rule" /\ rule_idx < Len(CurrentGroup.rules)

\* C1: after every successful run, and so after a second run on the workbook the
\* first run produced, each worksheet named by the rule table carries exactly the
\* directives that run attached, in the order it attached them: nothing of an
\* earlier run or of the original workbook survives and nothing is duplicated.
C1_ClearBeforeApply ==
    result = "output" =>
        \A g \in 1..Len(rules_by_sheet) :
            /\ HasSheet(output.sheets, rules_by_sheet[g].name)
            /\ SheetCf(output.sheets, rules_by_sheet[g].name)
                   = AttachedTo(rules_by_sheet[g].name)

C1_Witness ==
    /\ rerun
    /\ result = "output"
    /\ \E g \in 1..Len(rules_by_sheet) :
           /\ SheetCf(target_file.sheets, rules_by_sheet[g].name) # <<>>
           /\ AttachedTo(rules_by_sheet[g].name) # <<>>

\* C2: processing a record whose background and font colours both resolve to unset
\* adds one to the skipped count, leaves the applied count alone and attaches
\* nothing to any worksheet.
C2_NoColorSkipped ==
    [][ (InLoop /\ BothUnset(CurrentRule)) =>
            /\ rules_skipped' = rules_skipped + 1
            /\ rules_applied' = rules_applied
            /\ wb_new' = wb_new
            /\ attached' = attached ]_vars

C2_Witness ==
    /\ pc = "rule"
    /\ rule_idx > 0
    /\ Truthy(CurrentGroup.rules[rule_idx].formula)
    /\ BothUnset(CurrentGroup.rules[rule_idx])
    /\ rules_skipped > 0

\* the text is exactly three comma-separated integers
ThreeIntegers(text) ==
    LET parts == split(strip(replace(text, <<"'">>, <<>>)), ",")
    IN  Len(parts) = 3 /\ \A i \in 1..3 : IntParses(parts[i])

MalformedRgb == rgb_string # None /\ rgb_string # <<>> /\ ~ThreeIntegers(rgb_string)

C4_SixHexDigitsOrUnset ==
    pc = "resolved" =>
        \/ hex_color = None
        \/ Len(hex_color) = 6 /\ \A i \in 1..6 : IsHexChar(hex_color[i])

MissingRowSpecification ==
    ~(row_number_input # <<>> /\ strip(row_number_input) # <<>>) /\ first_row = NoRow

MissingSheet == ~rules_file.has_sheet

ZeroRecords == \A i \in 1..Len(rules_file.rows) : ~Truthy(rules_file.rows[i][1])

MissingTargetWorkbook == mode = "Update Existing File" /\ ~target_file.uploaded

\* C5: in a run with a missing row specification, a missing 'CF Rules' sheet, zero
\* records or update mode without a target, no workbook is opened, cleared or
\* written, no directive is attached and no tuple is returned; the run ends with an
\* error message unless reading the table raised; and with a missing row
\* specification the rules file is never opened.
C5_FatalNoOutput ==
    /\ (MissingRowSpecification \/ MissingSheet \/ ZeroRecords \/ MissingTargetWorkbook) =>
           /\ result # "output"
           /\ output = NoFile
           /\ wb_new = <<>>
           /\ attached = <<>>
           /\ rules_applied = 0
           /\ rules_skipped = 0
           /\ (pc = "done" => (result = "None" /\ error # "") \/ result = "raised")
    /\ MissingRowSpecification =>
           /\ ~rules_read
           /\ rules = <<>>
           /\ (pc = "done" => result = "None" /\ error # "")

C5_Witness ==
    /\ pc = "done"
    /\ MissingTargetWorkbook
    /\ rules # <<>>
    /\ result = "None"

\* the directive described for a record
DescribedDirective(r) ==
    LET R1 == IF first_row # NoRow /\ last_row # NoRow THEN first_row ELSE 1
        R2 == IF first_row # NoRow /\ last_row # NoRow THEN last_row ELSE 1000
        value == IF row_number_input # <<>> /\ strip(row_number_input) # <<>>
                 THEN strip(row_number_input) ELSE str(first_row)
    IN  [ range      |-> r.start_col \o str(R1) \o <<":">> \o r.end_col \o str(R2),
          formula    |-> replace(r.formula, RowToken, value),
          stopIfTrue |-> r.stop_if_true,
          fill       |-> BgHex(r),
          font       |-> FontHex(r) ]

ExampleRun ==
    /\ rules_file.rows = <<RowExample>>
    /\ first_row = 13
    /\ last_row = 15
    /\ strip(row_number_input) = <<>>
    /\ mode = "Create New File"
    /\ result = "output"

\* C6: the directive attached for a record with a formula and an accepted colour has
\* the range <startCol><R1>:<endCol><R2>, with (R1, R2) the first and last row when
\* both are given and (1, 1000) otherwise, the formula with every @ROW@ replaced by
\* the substitution value, the record's stop flag and the resolved colours; the
\* example record gives one sheet Sheet1 with A13:C15, =A13>0, stop, fill FF0000.
C6_DirectiveContent ==
    /\ (pc = "rule" /\ rule_idx > 0) =>
           LET r == CurrentGroup.rules[rule_idx]
           IN  (Truthy(r.formula) /\ ~BothUnset(r) /\ ~Rejected(r)) =>
                   /\ attached # <<>>
                   /\ attached[Len(attached)] =
                          [sheet |-> CurrentGroup.name, directive |-> DescribedDirective(r)]
                   /\ LET cf == SheetCf(wb_new, CurrentGroup.name)
                      IN  cf # <<>> /\ cf[Len(cf)] = DescribedDirective(r)
    /\ ExampleRun =>
           /\ output.sheets =
                  << [ title |-> <<"S", "h", "e", "e", "t", "1">>,
                       cf    |-> << [ range      |-> <<"A", "1", "3", ":", "C", "1", "5">>,
                                      formula    |-> <<"=", "A", "1", "3", ">", "0">>,
                                      stopIfTrue |-> TRUE,
                                      fill       |-> <<"F", "F", "0", "0", "0", "0">>,
                                      font       |-> None ] >> ] >>
           /\ rules_applied = 1
           /\ rules_skipped = 0

C6_Witness == ExampleRun /\ Len(output.sheets) = 1

NarrowTable ==
    /\ rules_file.has_sheet
    /\ rules_file.rows # <<>>
    /\ \A i \in 1..Len(rules_file.rows) :
           Len(rules_file.rows[i]) < 10 /\ Truthy(rules_file.rows[i][1])

\* C7: a table whose rows all have fewer than 10 fields and a start column is read
\* without error, one record per row, the missing fields taking their defaults.
C7_NarrowRowsParse ==
    (NarrowTable /\ rules_read /\ pc \notin {"load", "read"}) =>
        /\ result # "raised"
        /\ Len(rules) = Len(rules_file.rows)
        /\ \A i \in 1..Len(rules) :
               LET w == Len(rules_file.rows[i])
               IN  /\ (w < 4 => rules[i].stop_if_true = FALSE)
                   /\ (w < 5 => rules[i].bg_color = <<>>)
                   /\ (w < 6 => rules[i].bg_rgb = <<>>)
                   /\ (w < 7 => rules[i].font_color = <<>>)
                   /\ (w < 8 => rules[i].font_rgb = <<>>)
                   /\ (w < 9 => rules[i].number_format = <<>>)
                   /\ rules[i].worksheet = <<"S", "h", "e", "e", "t", "1">>

\* the record's directive cannot be built: it has a formula and a colour, and a
\* resolved colour is rejected
Fails(rule) == Truthy(rule.formula) /\ ~BothUnset(rule) /\ Rejected(rule)

\* C8: a record whose directive cannot be built is counted as skipped once and
\* changes nothing else: nothing is attached, the loop goes on with the next record
\* of the worksheet, and a run in which records failed still returns its workbook.
C8_FailureIsolated ==
    /\ [][ (InLoop /\ Fails(CurrentRule)) =>
               /\ rules_skipped' = rules_skipped + 1
               /\ rule_idx' = rule_idx + 1
               /\ UNCHANGED <<pc, rules_applied, wb_new, attached, result, error, output,
                              rules, rules_by_sheet, sheet_count, row_number, start_row,
                              end_row>> ]_vars
    /\ [](pc = "done" /\ warnings > 0 => result = "output")

C8_Witness ==
    /\ result = "output"
    /\ \E g \in 1..Len(rules_by_sheet) :
           /\ Len(rules_by_sheet[g].rules) >= 2
           /\ Fails(rules_by_sheet[g].rules[1])
           /\ SheetCf(output.sheets, rules_by_sheet[g].name) # <<>>

\* the worksheet a record names, the empty name counting as Sheet1
NamedSheet(rule) ==
    IF rule.worksheet = None \/ rule.worksheet = <<>> THEN <<"S", "h", "e", "e", "t", "1">> ELSE rule.worksheet

\* the worksheet names of the records in the order of their first appearance
RECURSIVE FirstSeenNames(_)
FirstSeenNames(rs) ==
    IF rs = <<>> THEN <<>>
    ELSE LET before == FirstSeenNames(SubSeq(rs, 1, Len(rs) - 1))
             name   == NamedSheet(rs[Len(rs)])
         IN  IF \E i \in 1..Len(before) : before[i] = name THEN before
             ELSE Append(before, name)

\* the records naming the worksheet, in table order
RecordsOf(name) ==
    LET Names(r) == NamedSheet(r) = name
    IN  SelectSeq(rules, Names)

\* the directives of the records of a worksheet that yield one, in table order
DirectivesOf(name) ==
    LET Applied(r) == RuleOutcome(r, row_number, start_row, end_row).kind = "applied"
        sel == SelectSeq(RecordsOf(name), Applied)
    IN  [i \in 1..Len(sel) |-> RuleOutcome(sel[i], row_number, start_row, end_row).directive]

\* C9: the groups are the worksheet names in the order of their first appearance,
\* each with its records in table order; worksheets are taken up in that order; the
\* directives of a worksheet are in the order of their records; and in create mode
\* the output has exactly one worksheet per distinct name, also for a name whose
\* records are all skipped.
C9_OrderPreserved ==
    /\ (pc \in {"sheet", "rule"} \/ result = "output") =>
           /\ Len(rules_by_sheet) = Len(FirstSeenNames(rules))
           /\ \A g \in 1..Len(rules_by_sheet) :
                  /\ rules_by_sheet[g].name = FirstSeenNames(rules)[g]
                  /\ rules_by_sheet[g].rules = RecordsOf(rules_by_sheet[g].name)
           /\ (mode = "Create New File" =>
                   Titles(wb_new) =
                       SubSeq(FirstSeenNames(rules), 1,
                              sheet_count + (IF pc = "rule" THEN 1 ELSE 0)))
    /\ result = "output" =>
           /\ \A g \in 1..Len(FirstSeenNames(rules)) :
                  SheetCf(output.sheets, FirstSeenNames(rules)[g])
                      = DirectivesOf(FirstSeenNames(rules)[g])
           /\ (mode = "Create New File" => Titles(output.sheets) = FirstSeenNames(rules))

C9_Witness ==
    /\ mode = "Create New File"
    /\ result = "output"
    /\ Len(output.sheets) = 2
    /\ output.sheets[1].cf # <<>>
    /\ output.sheets[2].cf = <<>>

\* the records of the first n groups
RECURSIVE RecordsInGroups(_)
RecordsInGroups(n) ==
    IF n = 0 THEN 0 ELSE RecordsInGroups(n - 1) + Len(rules_by_sheet[n].rules)

\* the directives on the worksheets of the first n groups
RECURSIVE DirectivesOnGroups(_)
DirectivesOnGroups(n) ==
    IF n = 0 THEN 0
    ELSE DirectivesOnGroups(n - 1) + Len(SheetCf(wb_new, rules_by_sheet[n].name))

\* C10: during the loop applied + skipped is the number of records processed so far
\* and applied is the number of directives attached in this run; on a successful
\* return applied + skipped is the number of parsed records.
C10_CounterConservation ==
    /\ pc \in {"sheet", "rule"} =>
           /\ rules_applied + rules_skipped
                  = RecordsInGroups(sheet_count) + (IF pc = "rule" THEN rule_idx ELSE 0)
           /\ rules_applied = Len(attached)
           /\ rules_applied
                  = DirectivesOnGroups(sheet_count + (IF pc = "rule" THEN 1 ELSE 0))
    /\ result = "output" => rules_applied + rules_skipped = Len(rules)

C10_Witness ==
    /\ result = "output"
    /\ rules_applied > 0
    /\ rules_skipped > 0
    /\ warnings > 0

====
